---- MODULE Spec2Model ----
(***************************************************************************)
(* speed-comparison.js: the concurrent three-transport timing harness      *)
(* (main, runAsServer, runAsClient) and its statistics (_formatTimings).   *)
(*                                                                         *)
(* One action is one turn of the Node event loop: a callback together with *)
(* the promise reactions (microtasks) that run before the next callback.   *)
(***************************************************************************)
EXTENDS Integers, Sequences, FiniteSets, TLC

\* ------------------------------------------------------------------ bounds
MaxSpinups == 2       \* NUM_SPINUPS is drawn from 1..MaxSpinups
MaxInstances == 1     \* most loop iterations of a run with faults injected (Spec)
MaxEchoInstances == 2 \* most loop iterations of a run without faults (SpecEcho)
MaxFaults == 2        \* wrong replies and transport/bind errors injected per run
MaxSamples == 6       \* longest SampleSet drawn for the statistics
MaxDur == 2           \* largest duration drawn for the statistics

\* --------------------------------------------------------- program constants
LoopStart == 8000     \* `let p = 8000` in main's for loop
HighFiveCount == 5    \* nums.slice(-5) / nums.slice(0, 5)

Transports == <<"quic", "http", "ws">>
TransportSet == {"quic", "http", "ws"}

\* the payload read from the `${DATA_SIZE}kb` fixture, and what a transport
\* may hand back: the payload itself or something else
data == "ping"
Replies == {"ping", "pong"}

NoVal == 0 - 1          \* the value of a promise that has none

VARIABLES
  START_PORT,        \* const START_PORT
  NUM_SPINUPS,       \* const NUM_SPINUPS
  isClient,          \* process.argv[2] === 'client'
  pc,                \* where main is: "start", "sleeping" (await _sleep(1)), "done"
  p,                 \* main's loop variable
  calls,             \* the (quicPort, httpPort, wsPort) of each runAsServer/runAsClient call
  responsePromises,  \* main's array: the Race Runner ids, in array order
  ops,               \* ops[k][t]: the promise and channel of transport t in runner k
  runners,           \* runners[k]: the promise runAsClient returned for launch k
  allPromise,        \* Promise.all(responsePromises), "none" before main creates it
  formatCalls,       \* how often _formatTimings was invoked
  timings,           \* the argument of the last _formatTimings call
  reports,           \* what console.log(ret) printed, in order
  errorSink,         \* what reached console.error
  listeners,         \* listeners[k][t]: "binding", "listening" or "failed"
  now,               \* the clock _getTime() reads
  faults,            \* faults injected so far
  failed,            \* the faults injected: <<runner or instance, transport, kind>>
  proc               \* "running", or why the process ended

harnessVars == <<START_PORT, NUM_SPINUPS, isClient, pc, p, calls, responsePromises,
                 ops, runners, allPromise, formatCalls, timings, reports, errorSink,
                 listeners, now, faults, failed, proc>>

\* ------------------------------------------------------------- JS promises
PendingPromise == [st |-> "pending", val |-> NoVal, reason |-> ""]

\* a resolve that settles again a promise already settled
PromiseResolve_overwrites(pr, v) == [pr EXCEPT !.st = "fulfilled", !.val = v]

\* resolve(v): settles a pending promise, no effect on a settled one
PromiseResolve(pr, v) ==
  IF pr.st = "pending" THEN [pr EXCEPT !.st = "fulfilled", !.val = v] ELSE pr

\* reject(r): settles a pending promise, no effect on a settled one
PromiseReject(pr, r) ==
  IF pr.st = "pending" THEN [pr EXCEPT !.st = "rejected", !.reason = r] ELSE pr

RejectedIdx(ps) == {i \in 1..Len(ps) : ps[i].st = "rejected"}

Min(S) == CHOOSE x \in S : \A y \in S : x <= y

\* a join that waits for every input before it settles (Promise.allSettled-like),
\* which Promise.all is not
PromiseAll_waitsForAll(ps) ==
  IF \E i \in 1..Len(ps) : ps[i].st = "pending"
    THEN PendingPromise
    ELSE IF RejectedIdx(ps) # {}
      THEN [st |-> "rejected", val |-> NoVal, reason |-> ps[Min(RejectedIdx(ps))].reason]
      ELSE [st |-> "fulfilled", val |-> [i \in 1..Len(ps) |-> ps[i].val], reason |-> ""]

\* a join that is fulfilled as soon as one input is, without waiting for the rest
PromiseAll_any(ps) ==
  IF RejectedIdx(ps) # {}
    THEN [st |-> "rejected", val |-> NoVal, reason |-> ps[Min(RejectedIdx(ps))].reason]
    ELSE IF \E i \in 1..Len(ps) : ps[i].st = "fulfilled"
      THEN [st |-> "fulfilled", val |-> [i \in 1..Len(ps) |-> ps[i].val], reason |-> ""]
      ELSE PendingPromise

\* Promise.all(ps), as runAsClient and main use it: rejected as soon as one
\* input is rejected, fulfilled with the values in input order once all are
PromiseAll(ps) ==
  IF RejectedIdx(ps) # {}
    THEN [st |-> "rejected", val |-> NoVal, reason |-> ps[Min(RejectedIdx(ps))].reason]
    ELSE IF \A i \in 1..Len(ps) : ps[i].st = "fulfilled"
      THEN [st |-> "fulfilled", val |-> [i \in 1..Len(ps) |-> ps[i].val], reason |-> ""]
      ELSE PendingPromise

\* a promise made by Promise.all keeps its state once settled
Joined(old, ps) == IF old.st = "pending" THEN PromiseAll(ps) ELSE old

\* ------------------------------------------------------------ statistics
\* A quotient a / b of two JS numbers is kept exact, as numerator and
\* denominator; Math.sqrt(q) is kept as the quotient under the root.
Quot(a, b) == [num |-> a, den |-> b]

\* Number(x) of a value that already is a number (a difference of two
\* _getTime() readings) is that number
ToNumber(x) == x

\* timings.map(timingPair => Number(timingPair[i])), i the 0-based JS index
Column(t, i) == [k \in 1..Len(t) |-> ToNumber(t[k][i + 1])]

\* a comparator with the two signs swapped, which sorts descending
Compare_descending(a, b) == IF a < b THEN 1 ELSE IF a > b THEN -1 ELSE 0

\* the comparator _sort hands to Array.prototype.sort
Compare(a, b) == IF a < b THEN -1 ELSE IF a > b THEN 1 ELSE 0

\* x put into the ascending sequence s, behind the elements it does not precede
RECURSIVE InsertSorted(_, _)
InsertSorted(x, s) ==
  IF s = <<>> THEN <<x>>
  ELSE IF Compare(x, Head(s)) < 0 THEN <<x>> \o s
  ELSE <<Head(s)>> \o InsertSorted(x, Tail(s))

\* nums.sort(comparator): a stable sort by the comparator
RECURSIVE _sort(_)
_sort(nums) ==
  IF nums = <<>> THEN <<>>
  ELSE InsertSorted(nums[Len(nums)], _sort(SubSeq(nums, 1, Len(nums) - 1)))

RECURSIVE SumSeq(_)
SumSeq(nums) == IF nums = <<>> THEN 0 ELSE Head(nums) + SumSeq(Tail(nums))

\* nums.reduce((sum, num) => sum + num) without an initial value throws a
\* TypeError on an empty array
MeanThrows(nums) == Len(nums) = 0

\* the sum without the division by nums.length
_calculateMean_undivided(nums) == Quot(SumSeq(nums), 1)

_calculateMean(nums) == Quot(SumSeq(nums), Len(nums))

\* the lower middle element for even n, which _calculateMedian does not take
_calculateMedian_lowerMiddle(nums) == nums[((Len(nums) - 1) \div 2) + 1]

\* nums[Math.floor(nums.length / 2)], JS index i being TLA+ index i + 1
_calculateMedian(nums) == nums[(Len(nums) \div 2) + 1]

_calculateHigh(nums) == nums[Len(nums)]

_calculateLow(nums) == nums[1]

\* sum of (num - mean)^2 over nums, divided by nums.length, for mean = a/b:
\* (num - a/b)^2 = (num*b - a)^2 / b^2
RECURSIVE SumSqDev(_, _)
SumSqDev(mean, nums) ==
  IF nums = <<>> THEN 0
  ELSE (Head(nums) * mean.den - mean.num) * (Head(nums) * mean.den - mean.num)
       + SumSqDev(mean, Tail(nums))

\* the deviations summed without squaring them
_calculateVariance_unsquared(mean, nums) ==
  Quot(SumSeq(nums) * mean.den - Len(nums) * mean.num, mean.den * mean.den * Len(nums))

_calculateVariance(mean, nums) ==
  Quot(SumSqDev(mean, nums), mean.den * mean.den * Len(nums))

_calculateStdDev(nums) ==
  [sqrtOf |-> _calculateVariance(_calculateMean(nums), nums)]

\* nums.slice(0, 5) taken for the top five as well
_getHighFive_fromFront(nums) ==
  SubSeq(nums, 1, IF Len(nums) > HighFiveCount THEN HighFiveCount ELSE Len(nums))

\* nums.slice(-5)
_getHighFive(nums) ==
  SubSeq(nums, IF Len(nums) > HighFiveCount THEN Len(nums) - HighFiveCount + 1 ELSE 1,
         Len(nums))

\* nums.slice(0, 5)
_getLowFive(nums) ==
  SubSeq(nums, 1, IF Len(nums) > HighFiveCount THEN HighFiveCount ELSE Len(nums))

\* JSON.stringify of an array of integers: "[a,b,c]"
RECURSIVE JoinNums(_)
JoinNums(nums) ==
  IF nums = <<>> THEN ""
  ELSE IF Len(nums) = 1 THEN ToString(nums[1])
  ELSE ToString(nums[1]) \o "," \o JoinNums(Tail(nums))

JSONStringify(nums) == "[" \o JoinNums(nums) \o "]"

\* the statistics of one transport's column, as _formatTimings computes them
TransportStats(col) ==
  LET sorted == _sort(col) IN
  [responses |-> JSONStringify(sorted),
   sorted    |-> sorted,
   mean      |-> _calculateMean(sorted),
   median    |-> _calculateMedian(sorted),
   high      |-> _calculateHigh(sorted),
   low       |-> _calculateLow(sorted),
   stdDev    |-> _calculateStdDev(sorted),
   highFive  |-> _getHighFive(sorted),
   lowFive   |-> _getLowFive(sorted)]

\* _formatTimings(t): the record `ret` it prints, or a throw out of
\* _calculateMean before anything is printed
FormatThrows(t) == MeanThrows(_sort(Column(t, 0)))

FormatRet(t) ==
  [quic |-> TransportStats(Column(t, 0)),
   http |-> TransportStats(Column(t, 1)),
   ws   |-> TransportStats(Column(t, 2))]

\* console.log(ret) is reached only when nothing threw
Printed(t) == IF FormatThrows(t) THEN <<>> ELSE <<FormatRet(t)>>

\* ------------------------------------------------------------ runAsClient
\* One per-transport operation: the promise (st, val, reason), the `start`
\* it read, and what the transport saw of it: requests `sent`, the `first`
\* reply delivered ("none", "match", "wrong"), an error surfaced (`err`),
\* and the WebSocket's channel ("na" for the other two transports).
\* every operation hands its payload over as it reads `start`
NewOp_sendsAtOnce(t, port, time) ==
  [st |-> "pending", val |-> NoVal, reason |-> "",
   port |-> port, start |-> time, sent |-> 1,
   first |-> "none", err |-> FALSE,
   chan |-> IF t = "ws" THEN "connecting" ELSE "na"]

NewOp(t, port, time) ==
  [st |-> "pending", val |-> NoVal, reason |-> "",
   port |-> port, start |-> time,
   sent |-> IF t = "ws" THEN 0 ELSE 1,
   first |-> "none", err |-> FALSE,
   chan |-> IF t = "ws" THEN "connecting" ELSE "na"]

\* the three promises runAsClient creates, each reading _getTime() as it starts
runAsClient(quicPort, httpPort, wsPort, time) ==
  [quic |-> NewOp("quic", quicPort, time),
   http |-> NewOp("http", httpPort, time),
   ws   |-> NewOp("ws", wsPort, time)]

\* onData without the comparison of the reply
quicOnData_unchecked(o, resp, time) == PromiseResolve(o, time - o.start)

\* .onData(resp => { if (resp !== data) reject(...); resolve(_getTime() - start) })
quicOnData(o, resp, time) ==
  PromiseResolve(IF resp # data THEN PromiseReject(o, "QUIC received wrong response") ELSE o,
                 time - o.start)

\* request's callback (err, resp): resp is undefined when err is set, and
\* `resp.body` then throws a TypeError out of the callback
httpCallbackThrows(err) == err

\* the callback without the comparison of the body
httpCallback_unchecked(o, body, time) == PromiseResolve(o, time - o.start)

httpCallback(o, body, time) ==
  PromiseResolve(IF body # data THEN PromiseReject(o, "HTTP received wrong response") ELSE o,
                 time - o.start)

\* ws.on('open', () => ws.send(data))
wsOnOpen(o) == [o EXCEPT !.chan = "open", !.sent = o.sent + 1]

\* a handler that closes the socket only after a matching message
wsOnMessage_closeOnMatch(o, message, time) ==
  [PromiseResolve(IF message # data THEN PromiseReject(o, "WS received wrong response") ELSE o,
                  time - o.start)
     EXCEPT !.chan = IF message = data THEN "closed" ELSE o.chan]

\* ws.on('message', ...): reject on a wrong message, resolve, ws.close()
wsOnMessage(o, message, time) ==
  [PromiseResolve(IF message # data THEN PromiseReject(o, "WS received wrong response") ELSE o,
                  time - o.start)
     EXCEPT !.chan = "closed"]

\* the promises Promise.all([quicPromise, httpPromise, wsPromise]) joins
OpPromises(r) == [i \in 1..3 |-> r[Transports[i]]]

\* ------------------------------------------------------------------- main
\* the ports main passes for loop value q
PortTriple(q, n) == <<q, q + n, q + (n * 2)>>

\* p < START_PORT + NUM_SPINUPS
LoopTest(q, startPort, n) == q < startPort + n

\* responsePromises.unshift(x): the new promise put in front
Push_unshift(arr, x) == <<x>> \o arr

\* responsePromises.push(x)
Push(arr, x) == Append(arr, x)

\* the promises of main's array, in array order
ArrayPromises(arr, rs) == [i \in 1..Len(arr) |-> rs[arr[i]]]

NoPromise == [st |-> "none", val |-> NoVal, reason |-> ""]

\* ------------------------------------------------------------ runAsServer
\* quic.listen(...).onError(console.error), eApp.listen(...) and
\* new WebSocket.Server(...): three listeners, each still binding
runAsServer(quicPort, httpPort, wsPort) ==
  [quic |-> [port |-> quicPort, st |-> "binding"],
   http |-> [port |-> httpPort, st |-> "binding"],
   ws   |-> [port |-> wsPort, st |-> "binding"]]

\* only the quic listener has an error handler (.onError(console.error));
\* the 'error' event of the express and the WebSocket server has no listener
\* and is thrown as an uncaught exception
BindErrorHandled(t) == t = "quic"

\* main's loop in server mode, which has no await: every iteration from q on
RECURSIVE ServerLoop(_, _, _, _)
ServerLoop(q, startPort, n, acc) ==
  IF LoopTest(q, startPort, n)
    THEN ServerLoop(q + 1, startPort, n, Append(acc, PortTriple(q, n)))
    ELSE acc

\* ------------------------------------------------------------ the harness
\* the configurations drawn: START_PORT around the loop's first value, the
\* loop running at most `most` times
Configs(most) ==
  {c \in ((LoopStart - 1)..(LoopStart + 1)) \X (1..MaxSpinups) :
     c[1] + c[2] - LoopStart <= most}

InitWith(cfgs) ==
  /\ \E c \in cfgs : START_PORT = c[1] /\ NUM_SPINUPS = c[2]
  /\ isClient \in BOOLEAN
  /\ pc = "start"
  /\ p = LoopStart
  /\ calls = <<>>
  /\ responsePromises = <<>>
  /\ ops = <<>>
  /\ runners = <<>>
  /\ allPromise = NoPromise
  /\ formatCalls = 0
  /\ timings = <<>>
  /\ reports = <<>>
  /\ errorSink = {}
  /\ listeners = <<>>
  /\ now = 0
  /\ faults = 0
  /\ failed = {}
  /\ proc = "running"

Init == InitWith(Configs(MaxInstances))

config == <<START_PORT, NUM_SPINUPS, isClient>>

\* The process ends (an uncaught exception, or an unhandled rejection on a
\* Node that ends the process for it): its promises, sockets and listeners
\* are gone; what it printed stays printed.
Exited(cause) ==
  /\ proc' = cause
  /\ pc' = "exited"
  /\ ops' = <<>>
  /\ runners' = <<>>
  /\ responsePromises' = <<>>
  /\ allPromise' = NoPromise
  /\ listeners' = <<>>

\* The promise reactions that end a turn: each runner's Promise.all (r2),
\* main's Promise.all once it exists (a2), and .then(_formatTimings).  A
\* rejection nobody handles is a warning or the end of the process, by Node
\* version.
Turn(ops2, r2, a2, pc2) ==
  LET called == allPromise.st # "fulfilled" /\ a2.st = "fulfilled"
      unhandled ==
        \/ allPromise.st = "none" /\ a2.st = "none"
             /\ \E k \in 1..Len(r2) : r2[k].st = "rejected" /\ runners[k].st = "pending"
        \/ allPromise.st # "rejected" /\ a2.st = "rejected"
        \/ called /\ FormatThrows(a2.val)
  IN /\ formatCalls' = IF called THEN formatCalls + 1 ELSE formatCalls
     /\ timings' = IF called THEN a2.val ELSE timings
     /\ reports' = IF called THEN reports \o Printed(a2.val) ELSE reports
     /\ \/ /\ proc' = "running"
           /\ pc' = pc2
           /\ ops' = ops2
           /\ runners' = r2
           /\ allPromise' = a2
           /\ UNCHANGED <<responsePromises, listeners>>
        \/ /\ unhandled
           /\ Exited("unhandledRejection")

\* a callback changed runner k's operation t to o
OpTurn(k, t, o) ==
  LET ops2 == [ops EXCEPT ![k][t] = o]
      r2 == [j \in 1..Len(runners) |-> Joined(runners[j], OpPromises(ops2[j]))]
      a2 == IF allPromise.st = "pending"
              THEN PromiseAll(ArrayPromises(responsePromises, r2))
              ELSE allPromise
  IN Turn(ops2, r2, a2, pc)

\* the value of p main's loop tests next: 8000 at first, p++ after a sleep
NextP == IF pc = "start" THEN p ELSE p + 1

\* the clock is read in whole sleeps: `await _sleep(1)` takes one millisecond
\* and nothing else takes time
Slept == IF pc = "sleeping" THEN now + 1 ELSE now

\* client mode, loop test true: runAsClient is called, its promise pushed,
\* and main awaits _sleep(1)
ClientLaunch ==
  /\ proc = "running" /\ isClient /\ pc \in {"start", "sleeping"}
  /\ LoopTest(NextP, START_PORT, NUM_SPINUPS)
  /\ p' = NextP
  /\ now' = Slept
  /\ pc' = "sleeping"
  /\ calls' = Append(calls, PortTriple(NextP, NUM_SPINUPS))
  /\ ops' = Append(ops, runAsClient(NextP, NextP + NUM_SPINUPS,
                                    NextP + (NUM_SPINUPS * 2), Slept))
  /\ runners' = Append(runners, PendingPromise)
  /\ responsePromises' = Push(responsePromises, Len(runners) + 1)
  /\ UNCHANGED <<config, allPromise, formatCalls, timings, reports, errorSink,
                 listeners, faults, failed, proc>>

\* client mode, loop test false: Promise.all(responsePromises).then(_formatTimings)
ClientJoin ==
  /\ proc = "running" /\ isClient /\ pc \in {"start", "sleeping"}
  /\ ~LoopTest(NextP, START_PORT, NUM_SPINUPS)
  /\ p' = NextP
  /\ now' = Slept
  /\ Turn(ops, runners, PromiseAll(ArrayPromises(responsePromises, runners)), "done")
  /\ UNCHANGED <<config, calls, errorSink, faults, failed>>

\* server mode: the whole loop runs in one turn
ServerMain ==
  /\ proc = "running" /\ ~isClient /\ pc = "start"
  /\ LET triples == ServerLoop(p, START_PORT, NUM_SPINUPS, <<>>) IN
       /\ calls' = triples
       /\ listeners' = [k \in 1..Len(triples) |->
                          runAsServer(triples[k][1], triples[k][2], triples[k][3])]
       /\ p' = p + Len(triples)
  /\ pc' = "done"
  /\ UNCHANGED <<config, responsePromises, ops, runners, allPromise, formatCalls,
                 timings, reports, errorSink, now, faults, failed, proc>>

\* a listener is bound and logs its address
BindOk(k, t) ==
  /\ proc = "running" /\ k \in 1..Len(listeners)
  /\ listeners[k][t].st = "binding"
  /\ listeners' = [listeners EXCEPT ![k][t].st = "listening"]
  /\ UNCHANGED <<config, pc, p, calls, responsePromises, ops, runners, allPromise,
                 formatCalls, timings, reports, errorSink, now, faults, failed, proc>>

\* a listener fails to bind its port
BindError(k, t) ==
  /\ proc = "running" /\ k \in 1..Len(listeners)
  /\ listeners[k][t].st = "binding"
  /\ faults < MaxFaults
  /\ faults' = faults + 1
  /\ failed' = failed \cup {<<k, t, "BIND">>}
  /\ IF BindErrorHandled(t)
       THEN /\ errorSink' = errorSink \cup {<<k, t, "BIND">>}
            /\ listeners' = [listeners EXCEPT ![k][t].st = "failed"]
            /\ UNCHANGED <<pc, responsePromises, ops, runners, allPromise, proc>>
       ELSE /\ errorSink' = errorSink
            /\ Exited("uncaughtException")
  /\ UNCHANGED <<config, p, calls, formatCalls, timings, reports, now>>

\* the reply an operation may be given: one per request, none after an error
CanReply(o, resp) ==
  /\ o.sent = 1 /\ o.first = "none" /\ ~o.err
  /\ resp # data => faults < MaxFaults

Replied(o, resp) == [o EXCEPT !.first = IF resp = data THEN "match" ELSE "wrong"]

Injected(k, t, resp) ==
  /\ faults' = IF resp # data THEN faults + 1 ELSE faults
  /\ failed' = IF resp # data THEN failed \cup {<<k, t, "MISMATCH">>} ELSE failed

\* an error may be surfaced for an operation that got no reply
CanFail(o) == o.first = "none" /\ ~o.err /\ faults < MaxFaults

\* the quic client's onData callback
QuicData(k, resp) ==
  /\ proc = "running" /\ k \in 1..Len(ops)
  /\ CanReply(ops[k].quic, resp)
  /\ Injected(k, "quic", resp)
  /\ OpTurn(k, "quic", quicOnData(Replied(ops[k].quic, resp), resp, now))
  /\ UNCHANGED <<config, p, calls, errorSink, now>>

\* the quic client's onError callback: console.error, and nothing else
QuicError(k) ==
  /\ proc = "running" /\ k \in 1..Len(ops)
  /\ CanFail(ops[k].quic)
  /\ faults' = faults + 1
  /\ failed' = failed \cup {<<k, "quic", "TRANSPORT">>}
  /\ errorSink' = errorSink \cup {<<k, "quic", "TRANSPORT">>}
  /\ ops' = [ops EXCEPT ![k].quic.err = TRUE]
  /\ UNCHANGED <<config, pc, p, calls, responsePromises, runners, allPromise,
                 formatCalls, timings, reports, listeners, now, proc>>

\* request's callback with a response
HttpResponse(k, body) ==
  /\ proc = "running" /\ k \in 1..Len(ops)
  /\ CanReply(ops[k].http, body)
  /\ ~httpCallbackThrows(FALSE)
  /\ Injected(k, "http", body)
  /\ OpTurn(k, "http", httpCallback(Replied(ops[k].http, body), body, now))
  /\ UNCHANGED <<config, p, calls, errorSink, now>>

\* request's callback with an error: `resp.body` throws, the process ends
HttpError(k) ==
  /\ proc = "running" /\ k \in 1..Len(ops)
  /\ CanFail(ops[k].http)
  /\ httpCallbackThrows(TRUE)
  /\ faults' = faults + 1
  /\ failed' = failed \cup {<<k, "http", "TRANSPORT">>}
  /\ Exited("uncaughtException")
  /\ UNCHANGED <<config, p, calls, formatCalls, timings, reports, errorSink, now>>

\* the WebSocket's 'open' event
WsOpen(k) ==
  /\ proc = "running" /\ k \in 1..Len(ops)
  /\ ops[k].ws.chan = "connecting" /\ ~ops[k].ws.err
  /\ ops' = [ops EXCEPT ![k].ws = wsOnOpen(ops[k].ws)]
  /\ UNCHANGED <<config, pc, p, calls, responsePromises, runners, allPromise,
                 formatCalls, timings, reports, errorSink, listeners, now, faults,
                 failed, proc>>

\* the WebSocket's 'message' event
WsMessage(k, message) ==
  /\ proc = "running" /\ k \in 1..Len(ops)
  /\ ops[k].ws.chan = "open"
  /\ CanReply(ops[k].ws, message)
  /\ Injected(k, "ws", message)
  /\ OpTurn(k, "ws", wsOnMessage(Replied(ops[k].ws, message), message, now))
  /\ UNCHANGED <<config, p, calls, errorSink, now>>

\* the WebSocket's 'error' event: it has no listener, so emitting it throws
WsError(k) ==
  /\ proc = "running" /\ k \in 1..Len(ops)
  /\ ops[k].ws.chan \in {"connecting", "open"}
  /\ CanFail(ops[k].ws)
  /\ faults' = faults + 1
  /\ failed' = failed \cup {<<k, "ws", "TRANSPORT">>}
  /\ Exited("uncaughtException")
  /\ UNCHANGED <<config, p, calls, formatCalls, timings, reports, errorSink, now>>

\* a further callback or event may reach an operation that had its first reply
CanRepeat(o) == o.first # "none" /\ faults < MaxFaults

Repeated(k, t, kind) ==
  /\ faults' = faults + 1
  /\ failed' = failed \cup {<<k, t, kind>>}

\* the quic client's onData callback called again for the same request
QuicDuplicate(k, resp) ==
  /\ proc = "running" /\ k \in 1..Len(ops)
  /\ CanRepeat(ops[k].quic)
  /\ Repeated(k, "quic", "DUPLICATE")
  /\ OpTurn(k, "quic", quicOnData(ops[k].quic, resp, now))
  /\ UNCHANGED <<config, p, calls, errorSink, now>>

\* request's callback called again with a response
HttpDuplicate(k, body) ==
  /\ proc = "running" /\ k \in 1..Len(ops)
  /\ CanRepeat(ops[k].http)
  /\ ~httpCallbackThrows(FALSE)
  /\ Repeated(k, "http", "DUPLICATE")
  /\ OpTurn(k, "http", httpCallback(ops[k].http, body, now))
  /\ UNCHANGED <<config, p, calls, errorSink, now>>

\* a further 'message' event on a WebSocket whose close() has been called
WsDuplicate(k, message) ==
  /\ proc = "running" /\ k \in 1..Len(ops)
  /\ CanRepeat(ops[k].ws)
  /\ Repeated(k, "ws", "DUPLICATE")
  /\ OpTurn(k, "ws", wsOnMessage(ops[k].ws, message, now))
  /\ UNCHANGED <<config, p, calls, errorSink, now>>

\* an error surfaced for an operation after its first reply: console.error
\* for quic; a throw out of request's callback or an 'error' event without a
\* listener for the other two
LateError(k, t) ==
  /\ proc = "running" /\ k \in 1..Len(ops)
  /\ CanRepeat(ops[k][t]) /\ ~ops[k][t].err
  /\ Repeated(k, t, "LATE")
  /\ IF t = "quic"
       THEN /\ errorSink' = errorSink \cup {<<k, t, "LATE">>}
            /\ ops' = [ops EXCEPT ![k][t].err = TRUE]
            /\ UNCHANGED <<pc, responsePromises, runners, allPromise, listeners, proc>>
       ELSE /\ t = "http" => httpCallbackThrows(TRUE)
            /\ errorSink' = errorSink
            /\ Exited("uncaughtException")
  /\ UNCHANGED <<config, p, calls, formatCalls, timings, reports, now>>

Next ==
  \/ ClientLaunch
  \/ ClientJoin
  \/ ServerMain
  \/ \E k \in DOMAIN listeners, t \in TransportSet : BindOk(k, t)
  \/ \E k \in DOMAIN listeners, t \in TransportSet : BindError(k, t)
  \/ \E k \in DOMAIN ops, resp \in Replies : QuicData(k, resp)
  \/ \E k \in DOMAIN ops : QuicError(k)
  \/ \E k \in DOMAIN ops, body \in Replies : HttpResponse(k, body)
  \/ \E k \in DOMAIN ops : HttpError(k)
  \/ \E k \in DOMAIN ops : WsOpen(k)
  \/ \E k \in DOMAIN ops, message \in Replies : WsMessage(k, message)
  \/ \E k \in DOMAIN ops : WsError(k)

\* the harness with wrong replies, transport errors and bind errors injected
Spec == Init /\ [][Next]_harnessVars

\* the harness against correctly echoing transports: every reply is the
\* payload, no error is surfaced, every listener binds
InitEcho == InitWith(Configs(MaxEchoInstances))

NextEcho ==
  \/ ClientLaunch
  \/ ClientJoin
  \/ ServerMain
  \/ \E k \in DOMAIN listeners, t \in TransportSet : BindOk(k, t)
  \/ \E k \in DOMAIN ops : QuicData(k, data)
  \/ \E k \in DOMAIN ops : HttpResponse(k, data)
  \/ \E k \in DOMAIN ops : WsOpen(k)
  \/ \E k \in DOMAIN ops : WsMessage(k, data)

SpecEcho == InitEcho /\ [][NextEcho]_harnessVars

\* ------------------------------------------------- the statistics alone
\* the SampleSets drawn: each triple has its three durations differ, so that
\* one client-mode run of a single runner whose transports may answer
\* wrongly, call a callback again, or surface an error after the reply
InitRepeat ==
  /\ InitWith({<<LoopStart, 1>>})
  /\ isClient

NextRepeat ==
  \/ ClientLaunch
  \/ ClientJoin
  \/ \E k \in DOMAIN ops, resp \in Replies : QuicData(k, resp)
  \/ \E k \in DOMAIN ops, body \in Replies : HttpResponse(k, body)
  \/ \E k \in DOMAIN ops : WsOpen(k)
  \/ \E k \in DOMAIN ops, message \in Replies : WsMessage(k, message)
  \/ \E k \in DOMAIN ops, resp \in Replies : QuicDuplicate(k, resp)
  \/ \E k \in DOMAIN ops, body \in Replies : HttpDuplicate(k, body)
  \/ \E k \in DOMAIN ops, message \in Replies : WsDuplicate(k, message)
  \/ \E k \in DOMAIN ops, t \in TransportSet : LateError(k, t)

SpecRepeat == InitRepeat /\ [][NextRepeat]_harnessVars

\* the three columns of a SampleSet are different samples
SampleTriples == {<<d, MaxDur - d, (d * 2) % (MaxDur + 1)>> : d \in 0..MaxDur}

SampleSets == UNION {[1..n -> SampleTriples] : n \in 0..MaxSamples}

\* main's Promise.all has just been fulfilled with a SampleSet
InitStats ==
  /\ START_PORT = LoopStart /\ NUM_SPINUPS = 1 /\ isClient = TRUE
  /\ pc = "done"
  /\ p = LoopStart
  /\ calls = <<>>
  /\ responsePromises = <<>>
  /\ ops = <<>>
  /\ runners = <<>>
  /\ allPromise \in {[st |-> "fulfilled", val |-> t, reason |-> ""] : t \in SampleSets}
  /\ formatCalls = 0
  /\ timings = <<>>
  /\ reports = <<>>
  /\ errorSink = {}
  /\ listeners = <<>>
  /\ now = 0
  /\ faults = 0
  /\ failed = {}
  /\ proc = "running"

\* .then(_formatTimings) runs
StatsFormat ==
  /\ proc = "running" /\ allPromise.st = "fulfilled" /\ formatCalls = 0
  /\ formatCalls' = 1
  /\ timings' = allPromise.val
  /\ reports' = reports \o Printed(allPromise.val)
  /\ proc' \in IF FormatThrows(allPromise.val)
                 THEN {"running", "unhandledRejection"} ELSE {"running"}
  /\ UNCHANGED <<config, pc, p, calls, responsePromises, ops, runners, allPromise,
                 errorSink, listeners, now, faults, failed>>

SpecStats == InitStats /\ [][StatsFormat]_harnessVars

\* ================================================================ claims
Roles == 1..3

Mismatch == {"QUIC received wrong response", "HTTP received wrong response",
             "WS received wrong response"}

\* when the last of runner k's operations settled, by the clock
Finish(k) ==
  LET f(t) == ops[k][t].start + ops[k][t].val
  IN CHOOSE m \in {f(t) : t \in TransportSet} : \A t \in TransportSet : f(t) <= m

\* C1 (as claimed): the ports main hands to runAsServer/runAsClient are
\* pairwise distinct over all instances and all three roles.
C1_PortsPairwiseDistinct ==
  \A i \in DOMAIN calls, j \in DOMAIN calls : \A a \in Roles, b \in Roles :
    <<i, a>> # <<j, b>> => calls[i][a] # calls[j][b]

\* C2 (as claimed): a client-mode run launches exactly NUM_SPINUPS Race
\* Runners and hands _formatTimings a SampleSet of exactly NUM_SPINUPS triples.
C2_ExactlyNRunners ==
  (isClient /\ pc = "done" /\ proc = "running")
    => /\ Len(runners) = NUM_SPINUPS
       /\ formatCalls > 0 => Len(timings) = NUM_SPINUPS

\* C3 (as claimed): the promise runAsClient returned settles only after all
\* three operations have settled.
C3_SettlesOnlyAfterAllThree ==
  \A k \in DOMAIN runners :
    runners[k].st # "pending" => \A t \in TransportSet : ops[k][t].st # "pending"

\* C3 (amended): the promise runAsClient returned is fulfilled only after all
\* three operations are fulfilled, and it is rejected exactly when one of the
\* three is rejected, whether or not the other two are still pending.
C3_FulfilledAfterAllRejectedAtFirst ==
  \A k \in DOMAIN runners :
    /\ runners[k].st = "fulfilled" => \A t \in TransportSet : ops[k][t].st = "fulfilled"
    /\ runners[k].st = "rejected" <=> \E t \in TransportSet : ops[k][t].st = "rejected"
    /\ runners[k].st = "rejected" => runners[k].reason \in Mismatch

\* a Race Runner rejected while another of its operations is still pending
C3_RejectedWhileOnePending ==
  \E k \in DOMAIN runners :
    /\ runners[k].st = "rejected"
    /\ \E t \in TransportSet : ops[k][t].st = "pending"

\* C4 (as claimed): an operation for which a transport error was surfaced is
\* rejected, and the process goes on.
C4_TransportErrorRejects ==
  \A f \in failed :
    f[3] = "TRANSPORT" => proc = "running" /\ ops[f[1]][f[2]].st = "rejected"

\* C5: an operation whose first reply differs from the payload is rejected
\* with the transport's wrong-response error, has no duration, and has sent
\* its one request only.
C5_MismatchRejectsWithoutRetry ==
  \A k \in DOMAIN ops : \A t \in TransportSet :
    ops[k][t].first = "wrong"
      => /\ ops[k][t].st = "rejected"
         /\ ops[k][t].reason \in Mismatch
         /\ ops[k][t].val = NoVal
         /\ ops[k][t].sent = 1
         /\ runners[k].st = "rejected"

\* a WebSocket operation that was sent a wrong message after it opened
C5_WrongReplyDelivered ==
  \E k \in DOMAIN ops : ops[k].ws.first = "wrong" /\ ops[k].ws.st = "rejected"

\* C6: once an operation of a client-mode run has failed (a wrong reply or a
\* transport error), _formatTimings is never invoked and nothing is printed.
C6_NoStatisticsAfterFailure ==
  (\E f \in failed : f[3] \in {"MISMATCH", "TRANSPORT"})
    => formatCalls = 0 /\ reports = <<>>

\* main joined a run one of whose operations got a wrong reply
C6_JoinedAfterFailure ==
  /\ \E f \in failed : f[3] = "MISMATCH"
  /\ pc = "done" /\ proc = "running"
  /\ allPromise.st = "rejected"

\* C7: the k-th triple handed to _formatTimings holds the three durations
\* of the k-th launched Race Runner, whatever order the runners finished in.
C7_SampleSetInLaunchOrder ==
  (formatCalls > 0 /\ proc = "running")
    => /\ Len(timings) = Len(ops)
       /\ \A k \in DOMAIN ops :
            timings[k] = <<ops[k].quic.val, ops[k].http.val, ops[k].ws.val>>

\* a report of two runners with different triples, the second having
\* finished before the first
C7_SecondFinishedFirst ==
  /\ formatCalls = 1 /\ proc = "running" /\ Len(ops) >= 2
  /\ Finish(2) < Finish(1)
  /\ timings[1] # timings[2]

\* C8 (as claimed): a listener's bind failure reaches the error sink and
\* leaves the process and every other listener as they were.
C8_BindFailureIsolated ==
  \A f \in failed :
    f[3] = "BIND"
      => /\ proc = "running"
         /\ f \in errorSink
         /\ Len(listeners) = Len(calls)

\* C9 (as claimed): once main has joined a client-mode run all of whose
\* Race Runners resolved, _formatTimings has been invoked exactly once and
\* exactly one summary has been printed.
C9_ReportedOnce ==
  (/\ isClient /\ pc \in {"done", "exited"}
   /\ failed = {}
   /\ \A k \in DOMAIN runners : runners[k].st = "fulfilled")
    => formatCalls = 1 /\ Len(reports) = 1

\* C10: the median printed for a transport is the element at 0-based index
\* floor(n/2) of the ascending order of that transport's column: at most
\* floor(n/2) durations are smaller and more than floor(n/2) are not larger.
C10_MedianIsUpperMiddle ==
  \A r \in DOMAIN reports : \A i \in Roles :
    LET col == Column(timings, i - 1)
        n == Len(col)
        m == reports[r][Transports[i]].median
    IN /\ n > 0
       /\ \E k \in 1..n : col[k] = m
       /\ Cardinality({k \in 1..n : col[k] < m}) <= n \div 2
       /\ Cardinality({k \in 1..n : col[k] <= m}) > n \div 2

\* a report of four samples whose two middle durations differ: the median
\* is the larger of the two
C10_EvenSampleUpperMiddle ==
  /\ Len(reports) = 1 /\ Len(timings) = 4
  /\ reports[1].quic.sorted[2] < reports[1].quic.sorted[3]
  /\ reports[1].quic.median = reports[1].quic.sorted[3]

\* how often v occurs in the sequence s
Count(s, v) == Cardinality({k \in DOMAIN s : s[k] = v})

\* C11: the sorted sequence of each transport is non-decreasing and holds
\* every value as often as that transport's column of the SampleSet does.
C11_SortedIsOrderedPermutation ==
  \A r \in DOMAIN reports : \A i \in Roles :
    LET col == Column(timings, i - 1)
        sorted == reports[r][Transports[i]].sorted
    IN /\ Len(sorted) = Len(col)
       /\ \A k \in 1..(Len(sorted) - 1) : sorted[k] <= sorted[k + 1]
       /\ \A v \in 0..MaxDur : Count(sorted, v) = Count(col, v)
       /\ reports[r][Transports[i]].responses = JSONStringify(sorted)

\* a report of a column that was not in order and holds a value twice
C11_UnorderedColumnWithTies ==
  /\ Len(reports) = 1 /\ Len(timings) = 3
  /\ Column(timings, 0) = <<2, 0, 2>>
  /\ reports[1].quic.sorted = <<0, 2, 2>>

\* C12: in every report and for every transport, low and high are the first
\* and last element of the sorted sequence, and both the median and the mean
\* (a quotient num/den with den > 0) lie between low and high.
C12_LowMedianMeanHigh ==
  \A r \in DOMAIN reports : \A i \in Roles :
    LET s == reports[r][Transports[i]] IN
    /\ s.low = s.sorted[1]
    /\ s.high = s.sorted[Len(s.sorted)]
    /\ s.low <= s.median /\ s.median <= s.high
    /\ s.mean.den > 0
    /\ s.low * s.mean.den <= s.mean.num
    /\ s.mean.num <= s.high * s.mean.den

\* a report where low, mean, median and high of one transport all differ
C12_StrictlyBetween ==
  \E r \in DOMAIN reports :
    LET s == reports[r].quic IN
    /\ s.low < s.median /\ s.median < s.high
    /\ s.low * s.mean.den < s.mean.num
    /\ s.mean.num < s.median * s.mean.den

\* C13: in every report and for every transport, the population variance
\* under the square root of stdDev is a quotient that is never negative, and
\* it is zero exactly when all durations of the column are equal.
C13_VarianceZeroIffAllEqual ==
  \A r \in DOMAIN reports : \A i \in Roles :
    LET s == reports[r][Transports[i]]
        variance == s.stdDev.sqrtOf
    IN /\ variance.den > 0
       /\ variance.num >= 0
       /\ (variance.num = 0) <=> (\A j, k \in DOMAIN s.sorted : s.sorted[j] = s.sorted[k])

\* a report of unequal durations whose mean is not an integer
C13_UnequalWithFractionalMean ==
  \E r \in DOMAIN reports :
    LET s == reports[r].quic IN
    /\ Len(s.sorted) >= 3
    /\ s.mean.num % s.mean.den # 0
    /\ s.stdDev.sqrtOf.num > 0

\* the smaller of five and n
MinFive(n) == IF n > HighFiveCount THEN HighFiveCount ELSE n

\* C14: in every report and for every transport with n durations, lowFive is
\* the first min(5, n) and highFive the last min(5, n) elements of the sorted
\* sequence, in its order.
C14_FivesAreEndsOfSorted ==
  \A r \in DOMAIN reports : \A i \in Roles :
    LET s == reports[r][Transports[i]]
        n == Len(s.sorted)
        m == MinFive(n)
    IN /\ Len(s.lowFive) = m /\ Len(s.highFive) = m
       /\ \A j \in 1..m : s.lowFive[j] = s.sorted[j]
       /\ \A j \in 1..m : s.highFive[j] = s.sorted[n - m + j]

\* a report of more than five durations whose two fives differ
C14_MoreThanFiveSamples ==
  \E r \in DOMAIN reports :
    /\ Len(reports[r].quic.sorted) > HighFiveCount
    /\ Len(reports[r].quic.highFive) = HighFiveCount
    /\ reports[r].quic.highFive # reports[r].quic.lowFive

\* C15 (as claimed): the instance with 0-based index i is given the ports
\* START_PORT + i, START_PORT + i + NUM_SPINUPS and
\* START_PORT + i + 2 * NUM_SPINUPS, so the first one uses START_PORT.
C15_PortsCountFromStartPort ==
  \A i \in DOMAIN calls :
    calls[i] = <<START_PORT + (i - 1),
                 START_PORT + (i - 1) + NUM_SPINUPS,
                 START_PORT + (i - 1) + 2 * NUM_SPINUPS>>

\* C20 (as claimed): _formatTimings is only ever called with a SampleSet
\* that holds at least one TimingTriple.
C20_FormatTimingsNeverEmpty ==
  formatCalls > 0 => Len(timings) > 0

\* C16 (as claimed): no operation is left, at the end of the turn that read
\* its `start`, with its payload not yet handed to its transport.
C16_PayloadSentWithStart ==
  \A k \in DOMAIN ops : \A t \in TransportSet : ops[k][t].sent = 1

\* C16 (amended): the turn that creates a runner reads `start` for all three
\* operations and hands the quic and http payloads over, but only creates the
\* WebSocket; the ws payload is sent by the later 'open' event, and no
\* operation's `start` is read again.
C16_WsSendsOnOpen ==
  [][\A k \in DOMAIN ops' :
       IF k \notin DOMAIN ops
         THEN /\ \A t \in TransportSet : ops'[k][t].start = now'
              /\ ops'[k].quic.sent = 1 /\ ops'[k].http.sent = 1
              /\ ops'[k].ws.sent = 0 /\ ops'[k].ws.chan = "connecting"
         ELSE /\ \A t \in TransportSet : ops'[k][t].start = ops[k][t].start
              /\ ops'[k].quic.sent = 1 /\ ops'[k].http.sent = 1
              /\ ops'[k].ws.sent # ops[k].ws.sent
                   => /\ ops[k].ws.chan = "connecting" /\ ops'[k].ws.chan = "open"
                      /\ ops[k].ws.sent = 0 /\ ops'[k].ws.sent = 1
  ]_harnessVars

\* a WebSocket still connecting, its payload unsent, after main's sleep has
\* moved the clock past the operation's `start`
C16_ConnectingAfterStart ==
  \E k \in DOMAIN ops :
    /\ ops[k].ws.chan = "connecting" /\ ops[k].ws.sent = 0
    /\ ops[k].quic.sent = 1
    /\ now > ops[k].ws.start

\* runner k's operation t has been given no reply and no error so far
Unanswered(k, t) == ops[k][t].first = "none" /\ ~ops[k][t].err

\* C17 (as claimed): while an operation has had neither a reply nor an error,
\* it is pending, its runner's promise is pending, and _formatTimings has
\* not been called.
C17_UnansweredBlocksRunner ==
  \A k \in DOMAIN ops : \A t \in TransportSet :
    Unanswered(k, t)
      => /\ ops[k][t].st = "pending"
         /\ runners[k].st = "pending"
         /\ formatCalls = 0

\* C17 (amended): while an operation has had neither a reply nor an error,
\* it is pending, its runner's promise and main's Promise.all are not
\* fulfilled, and nothing has been formatted or printed; the runner's promise
\* may yet have been rejected by a wrong reply to another of its operations.
C17_UnansweredBlocksFulfilment ==
  \A k \in DOMAIN ops : \A t \in TransportSet :
    Unanswered(k, t)
      => /\ ops[k][t].st = "pending"
         /\ runners[k].st # "fulfilled"
         /\ allPromise.st # "fulfilled"
         /\ formatCalls = 0 /\ reports = <<>>

\* main has joined its runners, two operations of a runner have their
\* durations, and the third is still unanswered
C17_OneOperationOutstanding ==
  /\ pc = "done" /\ allPromise.st = "pending"
  /\ \E k \in DOMAIN ops :
       /\ Unanswered(k, "http")
       /\ ops[k].quic.st = "fulfilled" /\ ops[k].ws.st = "fulfilled"
       /\ runners[k].st = "pending"

\* C18: every WebSocket operation has sent nothing while its channel is
\* connecting and exactly one message once it has opened, and its channel is
\* closed exactly when a first reply has been delivered, matching or not.
C18_OneMessageThenClose ==
  \A k \in DOMAIN ops :
    LET w == ops[k].ws IN
    /\ w.sent \in {0, 1}
    /\ (w.sent = 0) <=> (w.chan = "connecting")
    /\ (w.first # "none") <=> (w.chan = "closed")
    /\ w.chan = "closed" => w.sent = 1 /\ w.st # "pending"

\* a WebSocket closed after a reply that did not match, next to one message sent
C18_ClosedAfterWrongReply ==
  \E k \in DOMAIN ops :
    /\ ops[k].ws.first = "wrong" /\ ops[k].ws.chan = "closed"
    /\ ops[k].ws.sent = 1

\* C19: an operation that has settled keeps its state, its duration and its
\* reason through every later step, and what it settled to is fixed by its
\* first reply: rejected without a duration after a reply that did not
\* match, fulfilled with a duration after one that did.
C19_SettlesOnce ==
  [][\A k \in DOMAIN ops' : \A t \in TransportSet :
       /\ ops'[k][t].first = "wrong"
            => ops'[k][t].st = "rejected" /\ ops'[k][t].val = NoVal
       /\ ops'[k][t].first = "match"
            => ops'[k][t].st = "fulfilled" /\ ops'[k][t].val >= 0
       /\ (k \in DOMAIN ops /\ ops[k][t].st # "pending")
            => /\ ops'[k][t].st = ops[k][t].st
               /\ ops'[k][t].val = ops[k][t].val
               /\ ops'[k][t].reason = ops[k][t].reason
               /\ ops'[k][t].first = ops[k][t].first
  ]_harnessVars

\* a callback delivered again to an operation whose first reply did not
\* match, after main's sleep has moved the clock on
C19_DuplicateAfterSettling ==
  \E k \in DOMAIN ops : \E t \in TransportSet :
    /\ <<k, t, "DUPLICATE">> \in failed
    /\ ops[k][t].first = "wrong" /\ ops[k][t].st = "rejected"
    /\ now > ops[k][t].start

====
